---------------------------- MODULE Spec2Model ----------------------------
(***************************************************************************)
(* A model of tsrc's "push" entry point (src/tsrc/cli/push.py): the title  *)
(* transforms, the assignee resolution, the merge request handler and the  *)
(* sequencing of main(); and of the configuration parser                   *)
(* (src/tsrc/config.py).                                                   *)
(*                                                                         *)
(* Python strings are sequences of one-character strings.  Python's None   *)
(* is None (where a string is expected) or NoneObj (where a dict is        *)
(* expected); neither is a value a string or a dict can take.              *)
(***************************************************************************)
EXTENDS Integers, Sequences, FiniteSets

VARIABLES pc, args, git, handler, local, forge, calls, ui_log, error, unit, run

vars == <<pc, args, git, handler, local, forge, calls, ui_log, error, unit, run>>

-----------------------------------------------------------------------------
(* Bounds *)

\* how many times WIP_PREFIX is stacked in front of a title
MaxWipDepth == 2
\* the length of the free part of a title
MaxTailLen == 2
\* the length of the list of active users
MaxUsers == 3
\* the number of pieces (a delimiter, a letter or ".git") a drawn URL is made of
MaxUrlPieces == 4
\* the line and the column of a YAML error's context mark
MaxLine == 3
MaxColumn == 9
\* how many times in a row handle() is run against the same forge
MaxRuns == 2

-----------------------------------------------------------------------------
(* Python values *)

None == <<"None">>
NoneObj == [none |-> TRUE]

\* bool(x) of a str-or-None
Truthy(s) == s # None /\ s # <<>>

\* what calling a str method on None raises
AttributeError == <<"AttributeError">>

startswith(s, p) == Len(s) >= Len(p) /\ SubSeq(s, 1, Len(p)) = p

endswith(s, p) == Len(s) >= Len(p) /\ SubSeq(s, Len(s) - Len(p) + 1, Len(s)) = p

\* Python's `p in s` on strings
Contains(p, s) == \E i \in 0..(Len(s) - Len(p)) : SubSeq(s, i + 1, i + Len(p)) = p

RECURSIVE Flatten(_)
Flatten(ss) == IF ss = <<>> THEN <<>> ELSE Head(ss) \o Flatten(Tail(ss))

\* sep.join(items)
RECURSIVE Join(_, _)
Join(sep, items) ==
    IF items = <<>> THEN <<>>
    ELSE IF Len(items) = 1 THEN items[1]
    ELSE items[1] \o sep \o Join(sep, Tail(items))

-----------------------------------------------------------------------------
(* Title transforms *)

WIP_PREFIX == <<"W","I","P",":"," ">>

\* def wipify: a Python function that falls off its end returns None
wipify(title) ==
    IF ~startswith(title, WIP_PREFIX) THEN WIP_PREFIX \o title ELSE None

unwipify_short(title) ==
    IF startswith(title, WIP_PREFIX)
    THEN SubSeq(title, Len(WIP_PREFIX), Len(title))
    ELSE None
unwipify(title) ==
    IF startswith(title, WIP_PREFIX)
    THEN SubSeq(title, Len(WIP_PREFIX) + 1, Len(title))
    ELSE None

handle_title_wip_first(merge_request, a) ==
    IF Truthy(a.mr_title) THEN a.mr_title
    ELSE LET title == merge_request.title IN
         IF a.wip THEN wipify(title)
         ELSE IF a.ready THEN unwipify(title)
         ELSE None
handle_title(merge_request, a) ==
    IF Truthy(a.mr_title) THEN a.mr_title
    ELSE LET title == merge_request.title IN
         IF a.ready THEN unwipify(title)
         ELSE IF a.wip THEN wipify(title)
         ELSE None

-----------------------------------------------------------------------------
(* Titles drawn as inputs *)

TitleChars == {"W", " ", "x"}

RECURSIVE SeqsUpTo(_, _)
SeqsUpTo(S, n) ==
    IF n = 0 THEN {<<>>}
    ELSE LET shorter == SeqsUpTo(S, n - 1)
         IN  shorter \cup {Append(s, c) : s \in shorter, c \in S}

NearMisses ==
    { <<"w","i","p",":"," ","x">>,
      <<"W","I","P",":","x">>,
      <<" ","W","I","P",":"," ","x">>,
      <<"W","I","P">>,
      <<"a","d","d"," ","f","e","a","t","u","r","e">> }

RECURSIVE Stack(_, _)
Stack(k, tail) == IF k = 0 THEN tail ELSE WIP_PREFIX \o Stack(k - 1, tail)

Titles ==
    { Stack(k, tail) : k \in 0..MaxWipDepth,
                       tail \in SeqsUpTo(TitleChars, MaxTailLen) \cup NearMisses }

ExplicitTitles == {None, <<>>, <<"x">>, WIP_PREFIX \o <<"x">>}

-----------------------------------------------------------------------------
(* Assignee resolution: GitLabMRHandler.get_assignee *)

Upper == <<"A","B","C","D","E","F","G","H","I","J","K","L","M",
           "N","O","P","Q","R","S","T","U","V","W","X","Y","Z","E_acute">>
Lower == <<"a","b","c","d","e","f","g","h","i","j","k","l","m",
           "n","o","p","q","r","s","t","u","v","w","x","y","z","e_acute">>

\* str.lower(), character by character
lower_char(c) ==
    IF \E i \in 1..Len(Upper) : Upper[i] = c
    THEN Lower[CHOOSE i \in 1..Len(Upper) : Upper[i] = c]
    ELSE c

lower(s) == [i \in 1..Len(s) |-> lower_char(s[i])]

\* unidecode.unidecode(): each character becomes its closest ASCII spelling,
\* which may be longer than one character; ASCII is left alone.  The
\* characters "e_acute", "E_acute", "i_acute" and "sharp_s" stand for
\* e-acute, E-acute, i-acute and the German sharp s.
unidecode_char(c) ==
    CASE c = "e_acute" -> <<"e">>
      [] c = "E_acute" -> <<"E">>
      [] c = "i_acute" -> <<"i">>
      [] c = "sharp_s" -> <<"s","s">>
      [] OTHER -> <<c>>

unidecode(s) == Flatten([i \in 1..Len(s) |-> unidecode_char(s[i])])

sanitize(string) == lower(unidecode(string))

\* the loop over zip(users, sanitized_names) of lines 168-171
RECURSIVE collect_matches_prepend(_, _, _)
collect_matches_prepend(users, sanitized_names, sanitized_pattern) ==
    IF users = <<>> \/ sanitized_names = <<>> THEN <<>>
    ELSE LET rest == collect_matches_prepend(Tail(users), Tail(sanitized_names),
                                             sanitized_pattern)
         IN  IF Contains(sanitized_pattern, Head(sanitized_names))
             THEN Append(rest, Head(users))
             ELSE rest
RECURSIVE collect_matches(_, _, _)
collect_matches(users, sanitized_names, sanitized_pattern) ==
    IF users = <<>> \/ sanitized_names = <<>> THEN <<>>
    ELSE LET rest == collect_matches(Tail(users), Tail(sanitized_names),
                                     sanitized_pattern)
         IN  IF Contains(sanitized_pattern, Head(sanitized_names))
             THEN <<Head(users)>> \o rest
             ELSE rest

\* ui.did_you_mean(message, user_input, choices): the message with a
\* suggestion picked among choices; kept as the call's arguments
did_you_mean(message, user_input, choices) ==
    [message |-> message, user_input |-> user_input, choices |-> choices]

NoUserFound == "No user found matching %s"
SeveralUsers == "Found several users matching %s: %s"

\* get_assignee(self, args), given the list self.api.get_active_users()
\* answers when it is asked; the result is [raised |-> FALSE, value |-> ...]
\* or [raised |-> TRUE, error |-> ...]
get_assignee_first_match(a, users) ==
    LET pattern == a.assignee IN
    IF ~Truthy(pattern) THEN [raised |-> FALSE, value |-> NoneObj]
    ELSE
    LET usernames == [i \in 1..Len(users) |-> users[i].name]
        sanitized_names == [i \in 1..Len(usernames) |-> sanitize(usernames[i])]
        sanitized_pattern == sanitize(pattern)
        matches == collect_matches(users, sanitized_names, sanitized_pattern)
    IN  IF matches = <<>>
        THEN [raised |-> TRUE,
              error |-> [type |-> "tsrc.Error",
                         template |-> NoUserFound,
                         pattern |-> pattern,
                         suggestion |-> did_you_mean(NoUserFound, pattern, usernames)]]
        ELSE [raised |-> FALSE, value |-> matches[1]]
get_assignee(a, users) ==
    LET pattern == a.assignee IN
    IF ~Truthy(pattern) THEN [raised |-> FALSE, value |-> NoneObj]
    ELSE
    LET usernames == [i \in 1..Len(users) |-> users[i].name]
        sanitized_names == [i \in 1..Len(usernames) |-> sanitize(usernames[i])]
        sanitized_pattern == sanitize(pattern)
        matches == collect_matches(users, sanitized_names, sanitized_pattern)
    IN  IF matches = <<>>
        THEN [raised |-> TRUE,
              error |-> [type |-> "tsrc.Error",
                         template |-> NoUserFound,
                         pattern |-> pattern,
                         suggestion |-> did_you_mean(NoUserFound, pattern, usernames)]]
        ELSE IF Len(matches) > 1
        THEN LET ambiguous_names == [i \in 1..Len(matches) |-> matches[i].name]
             IN  [raised |-> TRUE,
                  error |-> [type |-> "tsrc.Error",
                             template |-> SeveralUsers,
                             pattern |-> pattern,
                             names |-> Join(<<",", " ">>, ambiguous_names)]]
        ELSE [raised |-> FALSE, value |-> matches[1]]

-----------------------------------------------------------------------------
(* Accounts and patterns drawn as inputs *)

Alice == [id |-> 1, name |-> <<"A","l","i","c","e"," ","S","m","i","t","h">>]
Alicia == [id |-> 2, name |-> <<"A","l","i","c","i","a"," ","S","t","o","n","e">>]
Jose == [id |-> 3, name |-> <<"J","o","s","e_acute"," ","G","a","r","c","i_acute","a">>]
Bob == [id |-> 4, name |-> <<"B","o","b"," ","L","e","e">>]

Accounts == {Alice, Alicia, Jose, Bob}

UserLists == SeqsUpTo(Accounts, MaxUsers)

Patterns ==
    { None, <<>>,
      <<"a","l","i">>, <<"j","o","s","e">>, <<"z","z","z">>,
      <<"B","O","B">>, <<"e">>, <<"J","o","s","e_acute">> }

-----------------------------------------------------------------------------
(* Remote URLs *)

\* a split on '/' alone
RECURSIVE re_split_slash_only(_)
re_split_slash_only(url) ==
    IF \E i \in 1..Len(url) : url[i] = "/"
    THEN LET i == CHOOSE k \in 1..Len(url) :
                      /\ url[k] = "/"
                      /\ \A j \in 1..(k - 1) : url[j] # "/"
         IN  <<SubSeq(url, 1, i - 1)>> \o re_split_slash_only(SubSeq(url, i + 1, Len(url)))
    ELSE <<url>>

\* re.split("[:/]", url): empty parts are kept
RECURSIVE re_split(_)
re_split(url) ==
    IF \E i \in 1..Len(url) : url[i] \in {":", "/"}
    THEN LET i == CHOOSE k \in 1..Len(url) :
                      /\ url[k] \in {":", "/"}
                      /\ \A j \in 1..(k - 1) : url[j] \notin {":", "/"}
         IN  <<SubSeq(url, 1, i - 1)>> \o re_split(SubSeq(url, i + 1, Len(url)))
    ELSE <<url>>

project_name_from_url(url) ==
    LET parts == re_split(url)
        last2 == IF Len(parts) >= 2 THEN SubSeq(parts, Len(parts) - 1, Len(parts))
                 ELSE parts
        res   == Join(<<"/">>, last2)
    IN  IF endswith(res, <<".","g","i","t">>)
        THEN SubSeq(res, 1, Len(res) - 4)
        ELSE res

get_service(url) ==
    IF Contains(<<"g","i","t","h","u","b">>, url) THEN "github" ELSE "gitlab"

GitLabScpUrl ==
    <<"g","i","t","@","g","i","t","l","a","b",".","c","o","m",":",
      "f","o","o","/","b","a","r",".","g","i","t">>
ExampleSshUrl ==
    <<"s","s","h",":","/","/","g","i","t","@","e","x","a","m","p","l","e",".","c","o","m",
      ":","8","0","2","2","/","f","o","o","/","b","a","r",".","g","i","t">>
GitHubScpUrl ==
    <<"g","i","t","@","g","i","t","h","u","b",".","c","o","m",":",
      "f","o","o","/","b","a","r",".","g","i","t">>

Urls == {GitLabScpUrl, ExampleSshUrl, GitHubScpUrl}

ExampleScpUrl ==
    <<"g","i","t","@","e","x","a","m","p","l","e",".","c","o","m",":",
      "f","o","o","/","b","a","r",".","g","i","t">>
TrailingSlashUrl ==
    <<"h","t","t","p","s",":","/","/","g","i","t","l","a","b",".","c","o","m","/",
      "f","o","o","/","b","a","r","/">>
DoubleGitUrl ==
    <<"g","i","t","@","e","x","a","m","p","l","e",".","c","o","m",":",
      "f","o","o","/","b","a","r",".","g","i","t",".","g","i","t">>

UrlPieces == {<<":">>, <<"/">>, <<"a">>, <<".","g","i","t">>}

DrawnUrls ==
    {Flatten(ps) : ps \in SeqsUpTo(UrlPieces, MaxUrlPieces)}
    \cup Urls \cup {ExampleScpUrl, TrailingSlashUrl, DoubleGitUrl}

-----------------------------------------------------------------------------
(* The run of main(): inputs *)

Feat == <<"f","e","a","t">>
Master == <<"m","a","s","t","e","r">>
Dev == <<"d","e","v">>
AddFeature == <<"a","d","d"," ","f","e","a","t","u","r","e">>

\* self._project_id = None
NoId == -1

\* the ids the forge may give the project
ProjectIds == {0, 42}

RunTitles == {<<"x">>, WIP_PREFIX \o <<"x">>, WIP_PREFIX \o AddFeature}

RunExplicitTitles == {None, <<"t">>}

RunPatterns == {None, <<"a","l","i">>, <<"j","o","s","e">>, <<"z","z","z">>}

RunUserLists == {<<Alice, Alicia>>, <<Bob, Jose, Alice>>, <<Bob>>}

ArgsSet ==
    [mr_title : RunExplicitTitles, ready : BOOLEAN, wip : BOOLEAN,
     assignee : RunPatterns, accept : BOOLEAN, force : BOOLEAN,
     target_branch : {Master, Dev}]

\* an open merge request as the forge reports it
MergeRequest(iid, title, source, target) ==
    [iid |-> iid, title |-> title, source_branch |-> source, target_branch |-> target]

\* the open merge requests of the project when the run starts
InitialMergeRequests ==
    {<<>>, <<MergeRequest(1, <<"x">>, Dev, Master)>>}
    \cup {<<MergeRequest(1, t, Feat, Dev)>> : t \in RunTitles}

NoLocals ==
    [project_url |-> None, project_name |-> None, service |-> "",
     source_branch |-> None, assignee |-> NoneObj, merge_request |-> NoneObj,
     title |-> None]

NoUnit == [fn |-> "none"]

-----------------------------------------------------------------------------
(* The forge API (tsrc.gitlab.GitLabHelper) and git (tsrc.git) *)

ForgeOps ==
    {"get_project_id", "get_active_users", "find_opened_merge_request",
     "create_merge_request", "update_merge_request", "accept_merge_request"}

Call(op, ok, params, result) ==
    [op |-> op, ok |-> ok, params |-> params, result |-> result]

\* run_git(path, *cmd, raises=True): a nonzero exit status raises unless
\* raises=False, and then the status is returned
run_git_raises(rc, raises) == raises /\ rc # 0

\* the open merge request of the source branch, or None
find_opened_merge_request(mrs, project_id, source_branch) ==
    IF \E i \in 1..Len(mrs) : mrs[i].source_branch = source_branch
    THEN mrs[CHOOSE i \in 1..Len(mrs) :
                 /\ mrs[i].source_branch = source_branch
                 /\ \A j \in 1..(i - 1) : mrs[j].source_branch # source_branch]
    ELSE NoneObj

\* the forge's next merge request number
NextIid(mrs) ==
    IF mrs = <<>> THEN 1
    ELSE 1 + (CHOOSE m \in {mrs[i].iid : i \in 1..Len(mrs)} :
                  \A i \in 1..Len(mrs) : mrs[i].iid <= m)

\* the forge applies the fields of an update that carry a value
apply_update(mr, params) ==
    [mr EXCEPT !.title = IF params.title = None THEN @ ELSE params.title,
               !.target_branch = params.target_branch]

-----------------------------------------------------------------------------
(* Configuration files: tsrc.config.parse_config (src/tsrc/config.py) *)

\* no schema given (schema=None)
NoSchema == [type |-> "None"]

\* a plain dict given as schema, as get_gitlab_token does (push.py line 18)
DictSchema == [type |-> "dict"]

\* a schema.Schema object: validate(data) returns the validated data when
\* it accepts the data and raises SchemaError when it does not
SchemaObject(accepted) == [type |-> "Schema", accepted |-> accepted]

\* bool(schema): None is false, a non-empty dict and a Schema object are true
SchemaGiven(schema) == schema.type # "None"

Document(name) == [name |-> name, validated |-> FALSE]

\* what Schema.validate returns for data it accepts
Validated(data) == [data EXCEPT !.validated = TRUE]

InvalidConfig(path, details) ==
    [type |-> "tsrc.InvalidConfig", path |-> path, details |-> details]

\* what the body of a YAMLError handler raises when the error carries no
\* context mark: ruamel raises errors whose context_mark is None, and
\* YAMLError itself has no such member
MarkAttributeError == [type |-> "AttributeError", attribute |-> "context_mark.line"]

ValidateAttributeError == [type |-> "AttributeError", attribute |-> "validate"]

Raise(e) == [raised |-> TRUE, error |-> e]
Return(v) == [raised |-> FALSE, value |-> v]

\* parse_config(file_path, schema=schema); file is what file_path holds:
\* whether it can be read, and what ruamel.yaml.load makes of its contents
parse_config(file, schema) ==
    IF ~file.readable
    THEN Raise(InvalidConfig(file.path, [template |-> "Could not read file: %s"]))
    ELSE IF file.yaml.kind = "YAMLError"
    THEN IF file.yaml.context_mark = NoneObj
         THEN Raise(MarkAttributeError)
         ELSE Raise(InvalidConfig(file.path,
                  [template |-> "(ligne %s, col %s)  - YAML error: %s",
                   line |-> file.yaml.context_mark.line,
                   column |-> file.yaml.context_mark.column,
                   context |-> file.yaml.context]))
    ELSE LET parsed == file.yaml.parsed IN
         IF ~SchemaGiven(schema) THEN Return(parsed)
         ELSE IF schema.type = "dict" THEN Raise(ValidateAttributeError)
         ELSE IF parsed \in schema.accepted THEN Return(Validated(parsed))
         ELSE Raise(InvalidConfig(file.path,
                  [template |-> "str(schema_error)", data |-> parsed]))

\* get_tsrc_config_path(): XDG_CONFIG_HOME/tsrc.yml
TsrcConfigPath == <<"t","s","r","c",".","y","m","l">>

\* parse_tsrc_config(schema=schema)
parse_tsrc_config(file, schema) == parse_config([file EXCEPT !.path = TsrcConfigPath], schema)

\* get_gitlab_token(): the schema it passes is a dict, so whenever the file
\* is read and parsed the validation raises AttributeError
get_gitlab_token(file) ==
    LET config == parse_tsrc_config(file, DictSchema)
    IN  IF config.raised THEN config ELSE Return([token_of |-> config.value])

FooYml == <<"f","o","o",".","y","m","l">>

Documents == {Document("foo_bar_42"), Document("foo_bar_str")}

\* what ruamel.yaml.load does with the contents of a file
YamlOutcomes ==
    [kind : {"document"}, parsed : Documents]
    \cup [kind : {"YAMLError"},
          context : {"while parsing a flow sequence"},
          context_mark : [line : 0..MaxLine, column : 0..MaxColumn]]
    \cup [kind : {"YAMLError"}, context : {"None"}, context_mark : {NoneObj}]

ConfigFiles ==
    [path : {FooYml}, readable : {TRUE}, yaml : YamlOutcomes]
    \cup {[path |-> FooYml, readable |-> FALSE, yaml |-> [kind |-> "unread"]]}

Schemas == {NoSchema, DictSchema} \cup {SchemaObject(a) : a \in SUBSET Documents}

-----------------------------------------------------------------------------
(* main() and MRHandler.handle(), one action per step *)

RepoPath == <<"/","r","e","p","o">>

Rcs == {0, 1}

Fatal(message) == [type |-> "SystemExit", message |-> message]
ForgeError(op) == [type |-> "ForgeError", op |-> op]

\* an API call that failed raises, and nothing in handle() or in the
\* handler's methods catches it
api_call_swallowed(ok) == FALSE
api_call_raises(ok) == ~ok

\* how a call that changes the forge may end: done and answered, not done,
\* or done on the forge with the answer lost
Outcomes ==
    {[ok |-> TRUE, applied |-> TRUE], [ok |-> FALSE, applied |-> FALSE],
     [ok |-> FALSE, applied |-> TRUE]}

\* the order of the statements of handle(): what runs after each of them
StepAfter_ensure_first(step) ==
    CASE step = "handle" -> "find_merge_request"
      [] step = "ensure_merge_request" -> "get_assignee"
      [] step = "get_assignee" -> "update_merge_request"
      [] step = "update_merge_request" -> "accept_merge_request"
      [] OTHER -> "finish"
StepAfter(step) ==
    CASE step = "handle" -> "get_assignee"
      [] step = "get_assignee" -> "find_merge_request"
      [] step = "ensure_merge_request" -> "update_merge_request"
      [] step = "update_merge_request" -> "accept_merge_request"
      [] OTHER -> "finish"

\* line 114: if merge_request
merge_request_found_never(merge_request) == FALSE
merge_request_found(merge_request) == merge_request # NoneObj

\* line 133: if args.accept
should_accept_always(a) == TRUE
should_accept(a) == a.accept

\* bool(self._project_id)
HasProjectId(self) == self._project_id # NoId /\ self._project_id # 0

\* the handler as its constructor leaves it (lines 70-73 and 141-144)
NewHandler(class, project_name, source_branch, target_branch) ==
    [class |-> class, project_name |-> project_name,
     source_branch |-> source_branch, target_branch |-> target_branch,
     _project_id |-> NoId]

HandlerClass(service) ==
    IF service = "github" THEN "GitHubMRHandler" ELSE "GitLabMRHandler"

\* the run was started at main()
EnteredAtMain ==
    \/ pc = "get_project_url"
    \/ \E i \in 1..Len(calls) : calls[i].op = "git_remote_get_url"

\* the argv of git_push
git_push_cmd(source_branch, force) ==
    <<<<"push">>, <<"-u">>, <<"origin">>, source_branch \o <<":">> \o source_branch>>
    \o (IF force THEN <<<<"--force">>>> ELSE <<>>)

\* git_push calls run_git with its default raises=True
git_push_unchecked(rc) == run_git_raises(rc, FALSE)
git_push_raises(rc) == run_git_raises(rc, TRUE)

\* GitLabMRHandler.find_merge_request: the arguments of the API call
find_merge_request_params_by_target(self) ==
    [project_id |-> self._project_id, source_branch |-> self.target_branch]
find_merge_request_params(self) ==
    [project_id |-> self._project_id, source_branch |-> self.source_branch]

\* GitLabMRHandler.create_merge_request: the arguments of the API call
create_merge_request_params_wip(self) ==
    [project_id |-> self._project_id, source_branch |-> self.source_branch,
     title |-> WIP_PREFIX \o self.source_branch, target_branch |-> self.target_branch]
create_merge_request_params(self) ==
    [project_id |-> self._project_id, source_branch |-> self.source_branch,
     title |-> self.source_branch, target_branch |-> self.target_branch]

\* GitLabMRHandler.update_merge_request: the keyword arguments of the API call
update_merge_request_params_keep_branch(assignee, title, target_branch) ==
    LET params == [title |-> title, target_branch |-> target_branch]
    IN  IF assignee # NoneObj
        THEN [title |-> params.title, target_branch |-> params.target_branch,
              assignee_id |-> assignee.id]
        ELSE params
update_merge_request_params(assignee, title, target_branch) ==
    LET params == [title |-> title, target_branch |-> target_branch,
                   remove_source_branch |-> TRUE]
    IN  IF assignee # NoneObj
        THEN [title |-> params.title, target_branch |-> params.target_branch,
              remove_source_branch |-> params.remove_source_branch,
              assignee_id |-> assignee.id]
        ELSE params

\* lines 247-248: get_repo_root, get_project_url(repo_path)
GetProjectUrl ==
    /\ pc = "get_project_url"
    /\ \E rc \in Rcs :
         /\ calls' = Append(calls, Call("git_remote_get_url", rc = 0,
                                        [cwd |-> RepoPath], NoneObj))
         /\ IF rc # 0
            THEN /\ pc' = "aborted"
                 /\ error' = Fatal("Could not get url of 'origin' remote:")
                 /\ ui_log' = Append(ui_log, [msg |-> "Could not get url of 'origin' remote:"])
                 /\ local' = local
            ELSE /\ pc' = "get_project_name"
                 /\ local' = [local EXCEPT !.project_url = git.origin_url]
                 /\ UNCHANGED <<error, ui_log>>
    /\ UNCHANGED <<args, git, handler, forge, unit, run>>

\* line 249: get_project_name(project_url) runs get_project_url with the URL
\* as its repo_path; git answers with a failure or with some URL
GetProjectName ==
    /\ pc = "get_project_name"
    /\ \E rc \in Rcs, out \in Urls :
         /\ calls' = Append(calls, Call("git_remote_get_url", rc = 0,
                                        [cwd |-> local.project_url], NoneObj))
         /\ IF rc # 0
            THEN /\ pc' = "aborted"
                 /\ error' = Fatal("Could not get url of 'origin' remote:")
                 /\ ui_log' = Append(ui_log, [msg |-> "Could not get url of 'origin' remote:"])
                 /\ local' = local
            ELSE /\ pc' = "get_service"
                 /\ local' = [local EXCEPT !.project_name = project_name_from_url(out)]
                 /\ UNCHANGED <<error, ui_log>>
    /\ UNCHANGED <<args, git, handler, forge, unit, run>>

\* lines 250-252
GetServiceAndBranch ==
    /\ pc = "get_service"
    /\ local' = [local EXCEPT !.service = get_service(local.project_url),
                              !.source_branch = git.current_branch]
    /\ pc' = "git_push"
    /\ UNCHANGED <<args, git, handler, forge, calls, ui_log, error, unit, run>>

\* line 254: git_push(repo_path, source_branch, force=args.force)
GitPush ==
    /\ pc = "git_push"
    /\ \E rc \in Rcs :
         /\ calls' = Append(calls, Call("git_push", rc = 0,
                                        [cwd |-> RepoPath,
                                         cmd |-> git_push_cmd(local.source_branch, args.force)],
                                        NoneObj))
         /\ IF git_push_raises(rc)
            THEN /\ pc' = "aborted"
                 /\ error' = [type |-> "PushError"]
            ELSE /\ pc' = "make_handler"
                 /\ error' = error
    /\ ui_log' = Append(ui_log, [msg |-> "Running git push"])
    /\ UNCHANGED <<args, git, handler, local, forge, unit, run>>

\* the states of the tsrc configuration file main() is run with
TokenFiles ==
    {f \in ConfigFiles :
        \/ ~f.readable
        \/ f.yaml.kind = "document"
        \/ f.yaml.context_mark \in {NoneObj, [line |-> 0, column |-> 0]}}

\* lines 256-267: the handler of the service and its API client.  The
\* login, the workspace and its manifest are collaborators that may fail;
\* the token is read with get_gitlab_token, and handle() is called when
\* everything before it returned
MakeHandler ==
    /\ pc = "make_handler"
    /\ handler' = NewHandler(HandlerClass(local.service), local.project_name,
                             local.source_branch, args.target_branch)
    /\ \E ok \in BOOLEAN, file \in TokenFiles :
         IF ~ok
         THEN /\ pc' = "aborted"
              /\ error' = [type |-> IF local.service = "github"
                                    THEN "LoginError" ELSE "WorkspaceError"]
         ELSE IF local.service = "github"
         THEN /\ pc' = StepAfter("handle")
              /\ error' = error
         ELSE LET gitlab_token == get_gitlab_token(file)
              IN  IF gitlab_token.raised
                  THEN /\ pc' = "aborted"
                       /\ error' = gitlab_token.error
                  ELSE /\ pc' = StepAfter("handle")
                       /\ error' = error
    /\ UNCHANGED <<args, git, local, forge, calls, ui_log, unit, run>>

\* the project_id property (lines 146-150): the API call it makes, if any
ProjectIdCall(self, ok) ==
    IF HasProjectId(self) THEN <<>>
    ELSE <<Call("get_project_id", ok, [project_name |-> self.project_name],
                IF ok THEN [id |-> forge.project_id] ELSE NoneObj)>>

\* the handler after the project_id property was read successfully
WithProjectId(self) ==
    IF HasProjectId(self) THEN self ELSE [self EXCEPT !._project_id = forge.project_id]

\* line 122: assignee = self.get_assignee(args).  GitHubMRHandler.get_assignee
\* takes no args parameter, so the call raises TypeError
GetAssignee ==
    /\ pc = "get_assignee"
    /\ IF handler.class = "GitHubMRHandler"
       THEN /\ pc' = "aborted"
            /\ error' = [type |-> "TypeError"]
            /\ UNCHANGED <<local, calls>>
       ELSE IF ~Truthy(args.assignee)
       THEN /\ pc' = StepAfter("get_assignee")
            /\ local' = [local EXCEPT !.assignee = get_assignee(args, <<>>).value]
            /\ UNCHANGED <<error, calls>>
       ELSE \E ok \in BOOLEAN :
              /\ calls' = Append(calls, Call("get_active_users", ok, NoneObj,
                                             IF ok THEN forge.users ELSE <<>>))
              /\ IF api_call_raises(ok)
                 THEN /\ pc' = "aborted"
                      /\ error' = ForgeError("get_active_users")
                      /\ local' = local
                 ELSE LET r == get_assignee(args, forge.users)
                      IN  IF r.raised
                          THEN /\ pc' = "aborted"
                               /\ error' = r.error
                               /\ local' = local
                          ELSE /\ pc' = StepAfter("get_assignee")
                               /\ error' = error
                               /\ local' = [local EXCEPT !.assignee = r.value]
    /\ UNCHANGED <<args, git, handler, forge, ui_log, unit, run>>

\* lines 113-118: ensure_merge_request up to its branch, with
\* GitLabMRHandler.find_merge_request (lines 188-191)
FindMergeRequest ==
    /\ pc = "find_merge_request"
    /\ \E pid_ok \in BOOLEAN, find_ok \in BOOLEAN :
         LET pid_call == ProjectIdCall(handler, pid_ok)
             self     == WithProjectId(handler)
             params   == find_merge_request_params(self)
             found    == find_opened_merge_request(forge.mrs, params.project_id,
                                                   params.source_branch)
             find_call == Call("find_opened_merge_request", find_ok, params,
                               IF find_ok THEN found ELSE NoneObj)
         IN  IF pid_call # <<>> /\ api_call_raises(pid_ok)
             THEN /\ calls' = calls \o pid_call
                  /\ pc' = "aborted"
                  /\ error' = ForgeError("get_project_id")
                  /\ UNCHANGED <<handler, local, ui_log>>
             ELSE /\ calls' = calls \o pid_call \o <<find_call>>
                  /\ handler' = self
                  /\ IF api_call_raises(find_ok)
                     THEN /\ pc' = "aborted"
                          /\ error' = ForgeError("find_opened_merge_request")
                          /\ UNCHANGED <<local, ui_log>>
                     ELSE IF merge_request_found(found)
                     THEN /\ pc' = StepAfter("ensure_merge_request")
                          /\ local' = [local EXCEPT !.merge_request = found]
                          /\ ui_log' = Append(ui_log,
                                 [msg |-> "Found existing merge request: !%s",
                                  iid |-> found.iid])
                          /\ error' = error
                     ELSE /\ pc' = "create_merge_request"
                          /\ ui_log' = Append(ui_log, [msg |-> "Creating new merge_request"])
                          /\ UNCHANGED <<local, error>>
    /\ UNCHANGED <<args, git, forge, unit, run>>

\* line 119 with GitLabMRHandler.create_merge_request (lines 193-198)
CreateMergeRequest ==
    /\ pc = "create_merge_request"
    /\ \E pid_ok \in BOOLEAN, o \in Outcomes :
         LET pid_call == ProjectIdCall(handler, pid_ok)
             self     == WithProjectId(handler)
             params   == create_merge_request_params(self)
             created  == MergeRequest(NextIid(forge.mrs), params.title,
                                      params.source_branch, params.target_branch)
             create_call == Call("create_merge_request", o.ok, params,
                                 IF o.ok THEN created ELSE NoneObj)
         IN  IF pid_call # <<>> /\ api_call_raises(pid_ok)
             THEN /\ calls' = calls \o pid_call
                  /\ pc' = "aborted"
                  /\ error' = ForgeError("get_project_id")
                  /\ UNCHANGED <<handler, local, forge>>
             ELSE /\ calls' = calls \o pid_call \o <<create_call>>
                  /\ handler' = self
                  /\ forge' = IF o.applied
                              THEN [forge EXCEPT !.mrs = Append(@, created)]
                              ELSE forge
                  /\ IF api_call_raises(o.ok)
                     THEN /\ pc' = "aborted"
                          /\ error' = ForgeError("create_merge_request")
                          /\ local' = local
                     ELSE /\ pc' = StepAfter("ensure_merge_request")
                          /\ local' = [local EXCEPT !.merge_request = created]
                          /\ error' = error
    /\ UNCHANGED <<args, git, ui_log, unit, run>>

\* lines 126-131 with GitLabMRHandler.update_merge_request (lines 200-208)
UpdateMergeRequest ==
    /\ pc = "update_merge_request"
    /\ \E o \in Outcomes :
         LET merge_request == local.merge_request
             title  == handle_title(merge_request, args)
             params == update_merge_request_params(local.assignee, title,
                                                   handler.target_branch)
         IN  /\ calls' = Append(calls, Call("update_merge_request", o.ok,
                                            [merge_request |-> merge_request,
                                             kwargs |-> params], NoneObj))
             /\ local' = [local EXCEPT !.title = title]
             /\ forge' = IF o.applied
                         THEN [forge EXCEPT !.mrs =
                                 [i \in 1..Len(@) |->
                                     IF @[i].iid = merge_request.iid
                                     THEN apply_update(@[i], params) ELSE @[i]]]
                         ELSE forge
             /\ IF api_call_raises(o.ok)
                THEN /\ pc' = "aborted"
                     /\ error' = ForgeError("update_merge_request")
                ELSE /\ pc' = StepAfter("update_merge_request")
                     /\ error' = error
    /\ UNCHANGED <<args, git, handler, ui_log, unit, run>>

\* lines 133-134 with GitLabMRHandler.accept_merge_request (lines 210-211);
\* an accepted merge request is no longer open
AcceptMergeRequest ==
    /\ pc = "accept_merge_request"
    /\ IF ~should_accept(args)
       THEN /\ pc' = StepAfter("accept_merge_request")
            /\ UNCHANGED <<calls, error, forge>>
       ELSE \E o \in Outcomes :
              /\ calls' = Append(calls, Call("accept_merge_request", o.ok,
                                             [merge_request |-> local.merge_request],
                                             NoneObj))
              /\ forge' = IF o.applied
                          THEN [forge EXCEPT !.mrs =
                                  SelectSeq(@, LAMBDA m : m.iid # local.merge_request.iid)]
                          ELSE forge
              /\ IF api_call_raises(o.ok)
                 THEN /\ pc' = "aborted"
                      /\ error' = ForgeError("accept_merge_request")
                 ELSE /\ pc' = StepAfter("accept_merge_request")
                      /\ error' = error
    /\ UNCHANGED <<args, git, handler, local, ui_log, unit, run>>

\* lines 136-137
Finish ==
    /\ pc = "finish"
    /\ ui_log' = Append(ui_log, [msg |-> "See merge request at",
                                 iid |-> local.merge_request.iid])
    /\ pc' = "done"
    /\ UNCHANGED <<args, git, handler, local, forge, calls, error, unit, run>>

\* handle() is run again for the same project, branches and options, on a
\* new handler, against the forge as the previous run left it
NewRun ==
    /\ pc \in {"done", "aborted"}
    /\ ~EnteredAtMain
    /\ run < MaxRuns
    /\ run' = run + 1
    /\ pc' = StepAfter("handle")
    /\ handler' = NewHandler(handler.class, handler.project_name,
                             handler.source_branch, handler.target_branch)
    /\ local' = NoLocals
    /\ calls' = <<>>
    /\ ui_log' = <<>>
    /\ error' = NoneObj
    /\ UNCHANGED <<args, git, forge, unit>>

\* the forge of a run started at main(), which does not get to read it
MainForges == [project_id : {42}, mrs : {<<>>}, users : {<<Bob>>}]

Forges == [project_id : ProjectIds, mrs : InitialMergeRequests, users : RunUserLists]

\* a run starts at main(), or at handle() on a handler built as main() builds
\* it and given an API client by its caller
Init ==
    /\ args \in ArgsSet
    /\ local = NoLocals
    /\ calls = <<>>
    /\ ui_log = <<>>
    /\ error = NoneObj
    /\ unit = NoUnit
    /\ run = 1
    /\ \/ /\ pc = "get_project_url"
          /\ git \in [origin_url : Urls, current_branch : {Feat}]
          /\ handler = NoneObj
          /\ forge \in MainForges
       \/ /\ pc = StepAfter("handle")
          /\ ~args.force
          /\ git \in [origin_url : {GitLabScpUrl, GitHubScpUrl}, current_branch : {Feat}]
          /\ handler = NewHandler(HandlerClass(get_service(git.origin_url)),
                                  project_name_from_url(git.origin_url),
                                  git.current_branch, args.target_branch)
          /\ forge \in Forges

Next ==
    \/ GetProjectUrl
    \/ GetProjectName
    \/ GetServiceAndBranch
    \/ GitPush
    \/ MakeHandler
    \/ GetAssignee
    \/ FindMergeRequest
    \/ CreateMergeRequest
    \/ UpdateMergeRequest
    \/ AcceptMergeRequest
    \/ Finish
    \/ NewRun

Spec == Init /\ [][Next]_vars

-----------------------------------------------------------------------------
(* The title transforms on their own: a title and the title options are    *)
(* drawn, then one of the calls below is made.                             *)

\* no run of main() is in progress
NoRun ==
    /\ pc = "idle"
    /\ args = [mr_title |-> None, ready |-> FALSE, wip |-> FALSE, assignee |-> None,
               accept |-> FALSE, force |-> FALSE, target_branch |-> Master]
    /\ git = [origin_url |-> GitLabScpUrl, current_branch |-> Feat]
    /\ handler = NoneObj
    /\ local = NoLocals
    /\ forge = [project_id |-> 42, mrs |-> <<>>, users |-> <<>>]
    /\ calls = <<>>
    /\ ui_log = <<>>
    /\ error = NoneObj
    /\ run = 1

RunVars == <<pc, args, git, handler, local, forge, calls, ui_log, error, run>>

\* f(x) where x may be None: a str method on None raises AttributeError
CallOnResult(r, fr) == IF r = None THEN AttributeError ELSE fr

TitleInit ==
    /\ NoRun
    /\ unit \in [fn : {"input"}, title : Titles, mr_title : ExplicitTitles,
                 ready : BOOLEAN, wip : BOOLEAN, out : {None}]

CallWipify ==
    /\ unit.fn = "input"
    /\ unit' = [unit EXCEPT !.fn = "wipify", !.out = wipify(unit.title)]
    /\ UNCHANGED RunVars

CallUnwipify ==
    /\ unit.fn = "input"
    /\ unit' = [unit EXCEPT !.fn = "unwipify", !.out = unwipify(unit.title)]
    /\ UNCHANGED RunVars

\* wipify(wipify(title))
CallWipifyTwice ==
    /\ unit.fn = "input"
    /\ LET once == wipify(unit.title)
       IN  unit' = [unit EXCEPT !.fn = "wipify_wipify",
                                !.out = CallOnResult(once, wipify(once))]
    /\ UNCHANGED RunVars

\* unwipify(wipify(title))
CallUnwipifyWipify ==
    /\ unit.fn = "input"
    /\ LET once == wipify(unit.title)
       IN  unit' = [unit EXCEPT !.fn = "unwipify_wipify",
                                !.out = CallOnResult(once, unwipify(once))]
    /\ UNCHANGED RunVars

\* handle_title(merge_request, args) on a merge request with the drawn title
CallHandleTitle ==
    /\ unit.fn = "input"
    /\ unit' = [unit EXCEPT !.fn = "handle_title",
                            !.out = handle_title([title |-> unit.title], unit)]
    /\ UNCHANGED RunVars

TitleNext ==
    \/ CallWipify
    \/ CallUnwipify
    \/ CallWipifyTwice
    \/ CallUnwipifyWipify
    \/ CallHandleTitle

TitleSpec == TitleInit /\ [][TitleNext]_vars

-----------------------------------------------------------------------------
(* get_assignee on its own: a pattern and the list of active users are     *)
(* drawn, then get_assignee is called.                                     *)

AssigneeInit ==
    /\ NoRun
    /\ unit \in [fn : {"input"}, pattern : Patterns, users : UserLists]

\* users is the list object after the call: get_assignee only reads it
CallGetAssignee ==
    /\ unit.fn = "input"
    /\ unit' = [fn |-> "get_assignee", pattern |-> unit.pattern,
                users_before |-> unit.users, users |-> unit.users,
                result |-> get_assignee([assignee |-> unit.pattern], unit.users)]
    /\ UNCHANGED RunVars

AssigneeNext == CallGetAssignee

AssigneeSpec == AssigneeInit /\ [][AssigneeNext]_vars

-----------------------------------------------------------------------------
(* project_name_from_url on its own: a URL is drawn, then the function is   *)
(* called.                                                                 *)

UrlInit ==
    /\ NoRun
    /\ unit \in [fn : {"input"}, url : DrawnUrls]

CallProjectNameFromUrl ==
    /\ unit.fn = "input"
    /\ unit' = [fn |-> "project_name_from_url", url |-> unit.url,
                out |-> project_name_from_url(unit.url)]
    /\ UNCHANGED RunVars

UrlNext == CallProjectNameFromUrl

UrlSpec == UrlInit /\ [][UrlNext]_vars

-----------------------------------------------------------------------------
(* parse_config on its own: a file and a schema are drawn, then the         *)
(* function is called.                                                     *)

ParseInit ==
    /\ NoRun
    /\ unit \in [fn : {"input"}, file : ConfigFiles, schema : Schemas]

CallParseConfig ==
    /\ unit.fn = "input"
    /\ unit' = [fn |-> "parse_config", file |-> unit.file, schema |-> unit.schema,
                result |-> parse_config(unit.file, unit.schema)]
    /\ UNCHANGED RunVars

ParseNext == CallParseConfig

ParseSpec == ParseInit /\ [][ParseNext]_vars

-----------------------------------------------------------------------------
(* The methods of GitHubMRHandler on their own: a handler and a merge       *)
(* request are drawn, then one method is called.                           *)

GitHubMethods ==
    {"find_merge_request", "create_merge_request", "accept_merge_request",
     "update_merge_request", "get_assignee", "get_project_id"}

\* every method of GitHubMRHandler has the body "pass": it returns None
GitHubMRHandler_call(self, method, merge_request) == Return(NoneObj)

GitHubHandlers ==
    [class : {"GitHubMRHandler"}, project_name : {project_name_from_url(GitHubScpUrl)},
     source_branch : {Feat, Dev}, target_branch : {Master, Dev}]

StubInit ==
    /\ NoRun
    /\ unit \in [fn : {"input"}, self : GitHubHandlers,
                 merge_request : {MergeRequest(i, t, Feat, Master) :
                                    i \in 1..2, t \in RunTitles}]

CallGitHubMethod ==
    /\ unit.fn = "input"
    /\ \E method \in GitHubMethods :
         unit' = [fn |-> "GitHubMRHandler", method |-> method, self |-> unit.self,
                  merge_request |-> unit.merge_request,
                  result |-> GitHubMRHandler_call(unit.self, method, unit.merge_request)]
    /\ UNCHANGED RunVars

StubNext == CallGitHubMethod

StubSpec == StubInit /\ [][StubNext]_vars

-----------------------------------------------------------------------------
(* Properties *)

CallIndices(op) == {i \in 1..Len(calls) : calls[i].op = op}

ForgeCallIndices == {i \in 1..Len(calls) : calls[i].op \in ForgeOps}

\* handle() got as far as calling update_merge_request
ReachedUpdate == CallIndices("update_merge_request") # {}

\* the steps of handle()
HandleSteps ==
    {"get_assignee", "find_merge_request", "create_merge_request",
     "update_merge_request", "accept_merge_request", "finish", "done"}

\* C1: in a run of main() the git push of the current branch precedes
\* handle() and with it every forge API call, there is one push at most, and
\* after a push that failed the run is aborted, has built no handler and has
\* made no forge API call at all.
C1_PushBeforeForge ==
    EnteredAtMain =>
        /\ Cardinality(CallIndices("git_push")) <= 1
        /\ \A i \in ForgeCallIndices :
             \E j \in 1..(i - 1) : calls[j].op = "git_push" /\ calls[j].ok
        /\ (handler # NoneObj \/ pc \in HandleSteps) =>
             \E j \in CallIndices("git_push") : calls[j].ok
        /\ \A j \in CallIndices("git_push") :
             ~calls[j].ok => /\ ForgeCallIndices = {}
                             /\ pc = "aborted"
                             /\ handler = NoneObj

\* main() has pushed the current branch and has entered handle()
C1_Witness ==
    /\ EnteredAtMain
    /\ pc = "get_assignee"
    /\ \E j \in CallIndices("git_push") :
         /\ calls[j].ok
         /\ calls[j].params.cmd[4] = Feat \o <<":">> \o Feat

\* C2: on the GitLab backend, once ensure_merge_request has returned after a
\* lookup that found no open merge request, the run has called
\* create_merge_request exactly once, titled after the source branch and
\* targeting the requested target branch, has announced the creation, and
\* holds the merge request the forge created; no run creates twice, and none
\* creates without such a lookup before it.
C2_CreateOnce ==
    LET finds   == CallIndices("find_opened_merge_request")
        creates == CallIndices("create_merge_request")
        none_found == \E i \in finds : calls[i].ok /\ calls[i].result = NoneObj
    IN  /\ Cardinality(creates) <= 1
        /\ \A c \in creates :
             /\ \E i \in finds : i < c /\ calls[i].ok /\ calls[i].result = NoneObj
             /\ calls[c].params.title = git.current_branch
             /\ calls[c].params.source_branch = git.current_branch
             /\ calls[c].params.target_branch = args.target_branch
        /\ (none_found /\ local.merge_request # NoneObj) =>
             /\ handler.class = "GitLabMRHandler"
             /\ Cardinality(creates) = 1
             /\ \A c \in creates : calls[c].ok /\ calls[c].result = local.merge_request
             /\ local.merge_request.title = git.current_branch
             /\ \E k \in 1..Len(ui_log) : ui_log[k].msg = "Creating new merge_request"
             /\ \A k \in 1..Len(ui_log) : ui_log[k].msg # "Found existing merge request: !%s"
        /\ (pc = "done" /\ none_found) => Cardinality(creates) = 1

C2_Witness ==
    /\ pc = "done"
    /\ Contains(<<"g","i","t","l","a","b">>, git.origin_url)
    /\ \E i \in CallIndices("find_opened_merge_request") :
         calls[i].ok /\ calls[i].result = NoneObj
    /\ \E c \in CallIndices("create_merge_request") :
         calls[c].ok /\ calls[c].params.title = Feat
    /\ Len(forge.mrs) = 2

\* the account the pattern names, when exactly one account of the forge's
\* list matches it
UniqueMatch(pattern, users) ==
    LET hits == {i \in 1..Len(users) :
                    Contains(sanitize(pattern), sanitize(users[i].name))}
    IN  IF Cardinality(hits) = 1 THEN users[CHOOSE i \in hits : TRUE] ELSE NoneObj

\* C3: a run makes one update call at most, and exactly one once handle()
\* has reached the update step; the call is made on the merge request that
\* was found or created, and carries the title handle_title computes from
\* that merge request's title ("WIP: add feature" with --ready and no
\* explicit title gives "add feature"), the requested target branch,
\* remove_source_branch = True, and an assignee_id exactly when an assignee
\* pattern was given, then the id of the one account that matches it.
C3_OneUpdate ==
    LET updates == CallIndices("update_merge_request")
    IN  /\ Cardinality(updates) <= 1
        /\ pc \in {"accept_merge_request", "finish", "done"} => Cardinality(updates) = 1
        /\ \A u \in updates :
             LET mr == calls[u].params.merge_request
                 kw == calls[u].params.kwargs
             IN  /\ mr = local.merge_request
                 /\ mr # NoneObj
                 /\ kw.title = handle_title(mr, args)
                 /\ (mr.title = WIP_PREFIX \o AddFeature /\ args.ready
                        /\ ~Truthy(args.mr_title)) => kw.title = AddFeature
                 /\ kw.target_branch = args.target_branch
                 /\ "remove_source_branch" \in DOMAIN kw
                 /\ kw.remove_source_branch = TRUE
                 /\ ("assignee_id" \in DOMAIN kw) <=> Truthy(args.assignee)
                 /\ ("assignee_id" \in DOMAIN kw) =>
                        /\ UniqueMatch(args.assignee, forge.users) # NoneObj
                        /\ kw.assignee_id = UniqueMatch(args.assignee, forge.users).id

\* an update call that changes nothing: the merge request was found, already
\* targets the requested branch and no title option or assignee was given
C3_Witness ==
    \E u \in CallIndices("update_merge_request") :
        /\ calls[u].ok
        /\ CallIndices("create_merge_request") = {}
        /\ calls[u].params.merge_request.target_branch = args.target_branch
        /\ ~Truthy(args.mr_title) /\ ~args.ready /\ ~args.wip
        /\ ~Truthy(args.assignee)
        /\ pc = "done"

\* C4: with no explicit title and neither --wip nor --ready, the title sent
\* in the update call is the merge request's current title.
C4_TitlePassThrough ==
    \A u \in CallIndices("update_merge_request") :
        (~Truthy(args.mr_title) /\ ~args.ready /\ ~args.wip) =>
            calls[u].params.kwargs.title = calls[u].params.merge_request.title

\* C5: wipify(t) is "WIP: " + t when t does not start with "WIP: " and t
\* itself when it does, so wipify(wipify(t)) = wipify(t).
C5_MarkWip ==
    LET t == unit.title
        expected == IF startswith(t, WIP_PREFIX) THEN t ELSE WIP_PREFIX \o t
    IN  /\ unit.fn = "wipify" => unit.out = expected
        /\ unit.fn = "wipify_wipify" => unit.out = expected

\* C6: unwipify(t) is t without one leading "WIP: " when t starts with
\* "WIP: ", and t itself when it does not.
C6_MarkReady ==
    LET t == unit.title
        expected == IF startswith(t, WIP_PREFIX)
                    THEN SubSeq(t, Len(WIP_PREFIX) + 1, Len(t))
                    ELSE t
    IN  unit.fn = "unwipify" => unit.out = expected

\* C7: handle_title returns the explicit title whenever one is given,
\* whatever the options and the current title; otherwise with --ready it
\* returns unwipify(current title), also when --wip is given as well;
\* otherwise with --wip it returns wipify(current title).
C7_TitlePrecedence ==
    unit.fn = "handle_title" =>
        LET t == unit.title IN
        /\ Truthy(unit.mr_title) => unit.out = unit.mr_title
        /\ (~Truthy(unit.mr_title) /\ unit.ready) =>
              /\ unit.out = unwipify(t)
              /\ startswith(t, WIP_PREFIX) =>
                    unit.out = SubSeq(t, Len(WIP_PREFIX) + 1, Len(t))
        /\ (~Truthy(unit.mr_title) /\ ~unit.ready /\ unit.wip) =>
              /\ unit.out = wipify(t)
              /\ ~startswith(t, WIP_PREFIX) => unit.out = WIP_PREFIX \o t

\* --ready and --wip together on a title that carries the marker
C7_Witness ==
    /\ unit.fn = "handle_title"
    /\ ~Truthy(unit.mr_title) /\ unit.ready /\ unit.wip
    /\ unit.title = WIP_PREFIX \o WIP_PREFIX \o <<"x">>
    /\ unit.out = WIP_PREFIX \o <<"x">>

\* C8: unwipify(wipify(t)) = t for every title t that does not start with
\* "WIP: ".
C8_RoundTrip ==
    (unit.fn = "unwipify_wipify" /\ ~startswith(unit.title, WIP_PREFIX)) =>
        unit.out = unit.title

C8_Witness ==
    /\ unit.fn = "unwipify_wipify"
    /\ unit.title = <<"W","I","P",":","x">>
    /\ unit.out = unit.title

\* the indices of the accounts whose sanitized name contains the sanitized
\* pattern
MatchingIndices(pattern, users) ==
    {i \in 1..Len(users) : Contains(sanitize(pattern), sanitize(users[i].name))}

\* C9: given a pattern, get_assignee raises "No user found" with a
\* suggestion drawn from the raw names when no account matches, returns the
\* one matching account when exactly one matches, and raises "Found several
\* users" when two or more match; it leaves the list of users as it was.
\* Matching ignores case and accents: "jose" finds "Jose Garcia" written
\* with its accents.
C9_AssigneeOutcome ==
    (unit.fn = "get_assignee" /\ Truthy(unit.pattern)) =>
        LET hits == MatchingIndices(unit.pattern, unit.users_before)
            n    == Cardinality(hits)
            r    == unit.result
        IN  /\ unit.users = unit.users_before
            /\ n = 0 => /\ r.raised
                        /\ r.error.template = NoUserFound
                        /\ r.error.suggestion.user_input = unit.pattern
                        /\ r.error.suggestion.choices =
                              [i \in 1..Len(unit.users_before) |-> unit.users_before[i].name]
            /\ n = 1 => /\ ~r.raised
                        /\ r.value = unit.users_before[CHOOSE i \in hits : TRUE]
            /\ n >= 2 => /\ r.raised
                         /\ r.error.template = SeveralUsers
            /\ ~r.raised => n = 1
            /\ (unit.pattern = <<"j","o","s","e">> /\ unit.users_before = <<Bob, Jose>>) =>
                  (~r.raised /\ r.value = Jose)

C9_Witness ==
    /\ unit.fn = "get_assignee"
    /\ unit.pattern = <<"j","o","s","e">>
    /\ unit.users_before = <<Alice, Jose, Bob>>
    /\ ~unit.result.raised
    /\ unit.result.value = Jose

\* C10: the "Found several users" error lists the names of all the matching
\* accounts, joined with ", ", in the order of the list of users:
\* [Alice Smith, Alicia Stone] with "ali" lists "Alice Smith, Alicia Stone".
C10_AmbiguousNames ==
    (unit.fn = "get_assignee" /\ Truthy(unit.pattern) /\ unit.result.raised
        /\ unit.result.error.template = SeveralUsers) =>
        LET matching == SelectSeq(unit.users_before,
                           LAMBDA u : Contains(sanitize(unit.pattern), sanitize(u.name)))
        IN  /\ Len(matching) >= 2
            /\ unit.result.error.names =
                  Join(<<",", " ">>, [i \in 1..Len(matching) |-> matching[i].name])
            /\ (unit.pattern = <<"a","l","i">> /\ unit.users_before = <<Alice, Alicia>>) =>
                  unit.result.error.names =
                     <<"A","l","i","c","e"," ","S","m","i","t","h",","," ",
                       "A","l","i","c","i","a"," ","S","t","o","n","e">>

C10_Witness ==
    /\ unit.fn = "get_assignee"
    /\ unit.pattern = <<"a","l","i">>
    /\ unit.users_before = <<Alicia, Bob, Alice>>
    /\ unit.result.raised
    /\ unit.result.error.template = SeveralUsers
    /\ unit.result.error.names =
          <<"A","l","i","c","i","a"," ","S","t","o","n","e",","," ",
            "A","l","i","c","e"," ","S","m","i","t","h">>


\* C12: project_name_from_url splits the URL on every ':' and '/', joins the
\* last two segments with '/' and strips one trailing ".git"; the SCP-style
\* and the URL-style example remotes both give "foo/bar".
Delimiters(url) == {i \in 1..Len(url) : url[i] \in {":", "/"}}
Maximum(S) == CHOOSE m \in S : \A i \in S : i <= m
LastTwoSegments(url) ==
    IF Delimiters(url) = {} THEN url
    ELSE LET last == Maximum(Delimiters(url))
             before == Delimiters(url) \ {last}
             prev == IF before = {} THEN 0 ELSE Maximum(before)
         IN  SubSeq(url, prev + 1, last - 1) \o <<"/">> \o SubSeq(url, last + 1, Len(url))
StripOneDotGit(s) ==
    IF Len(s) >= 4 /\ SubSeq(s, Len(s) - 3, Len(s)) = <<".","g","i","t">>
    THEN SubSeq(s, 1, Len(s) - 4) ELSE s
FooBar == <<"f","o","o","/","b","a","r">>
C12_ProjectNameFromUrl ==
    unit.fn = "project_name_from_url" =>
        /\ unit.out = StripOneDotGit(LastTwoSegments(unit.url))
        /\ unit.url \in {ExampleScpUrl, ExampleSshUrl} => unit.out = FooBar
C12_Witness ==
    /\ unit.fn = "project_name_from_url"
    /\ unit.url = ExampleSshUrl
    /\ unit.out = FooBar

\* C19: for every remote URL the result of project_name_from_url has no
\* leading slash, no trailing slash and no trailing ".git".
C19_NamespacePath ==
    unit.fn = "project_name_from_url" =>
        /\ ~startswith(unit.out, <<"/">>)
        /\ ~endswith(unit.out, <<"/">>)
        /\ ~endswith(unit.out, <<".","g","i","t">>)

\* C13: parse_config raises InvalidConfig with the path of the file when the
\* file is unreadable, when its YAML is wrong (with the line and column of
\* the error context) and when the schema rejects it; with no schema it
\* returns the parsed content, otherwise the validated content.
C13_ParseConfig ==
    unit.fn = "parse_config" =>
        LET file == unit.file
            schema == unit.schema
            result == unit.result
            invalid == /\ result.raised
                       /\ result.error.type = "tsrc.InvalidConfig"
                       /\ result.error.path = file.path
        IN  IF ~file.readable THEN invalid
            ELSE IF file.yaml.kind = "YAMLError"
            THEN /\ invalid
                 /\ "line" \in DOMAIN result.error.details
                 /\ "column" \in DOMAIN result.error.details
            ELSE IF schema = NoSchema
            THEN result = Return(file.yaml.parsed)
            ELSE IF schema.type = "Schema" /\ file.yaml.parsed \in schema.accepted
            THEN result = Return(Validated(file.yaml.parsed))
            ELSE /\ invalid
                 /\ result.error.details.template = "str(schema_error)"

\* C20: every method of the GitHub handler fails with an explicit
\* unsupported-operation error instead of returning nothing.
C20_GitHubUnsupported ==
    unit.fn = "GitHubMRHandler" =>
        /\ unit.result.raised
        /\ unit.result.error.type = "UnsupportedOperation"

\* the open merge requests of the run's source branch
OpenForBranch ==
    {i \in 1..Len(forge.mrs) : forge.mrs[i].source_branch = git.current_branch}

\* C11: over runs of handle() made one after the other for the same project
\* and source branch, each of which may stop at any forge call, the forge
\* never holds more than one open merge request of that branch; a run
\* creates once at most, only after a lookup that found none, and does not
\* look up again.
C11_RerunSafety ==
    LET finds   == CallIndices("find_opened_merge_request")
        creates == CallIndices("create_merge_request")
    IN  /\ Cardinality(OpenForBranch) <= 1
        /\ Cardinality(creates) <= 1
        /\ Cardinality(finds) <= 1
        /\ \A c \in creates :
             \E f \in finds : f < c /\ calls[f].ok /\ calls[f].result = NoneObj

\* a later run finds the merge request an earlier run created
C11_Witness ==
    /\ run > 1
    /\ Cardinality(OpenForBranch) = 1
    /\ \E f \in CallIndices("find_opened_merge_request") :
         /\ calls[f].ok
         /\ calls[f].result # NoneObj
         /\ calls[f].result.title = git.current_branch
         /\ calls[f].result.iid = NextIid(<<>>)

\* get_assignee raised tsrc.Error: the pattern matches no account or several
AssigneeError == "type" \in DOMAIN error /\ error.type = "tsrc.Error"

\* the calls of ensure_merge_request
EnsureCallIndices ==
    CallIndices("get_project_id") \cup CallIndices("find_opened_merge_request")
    \cup CallIndices("create_merge_request")

\* C14 as the specification words it: the project id and the lookup (with
\* the creation) come before the list of active users is asked for, so the
\* lookup has taken place when the assignee error is raised.
C14_LookupBeforeAssignee ==
    /\ \A a \in CallIndices("get_active_users") :
         \E f \in CallIndices("find_opened_merge_request") : f < a
    /\ AssigneeError => CallIndices("find_opened_merge_request") # {}

\* C14, amended: handle() resolves the assignee first; the call for the
\* list of active users precedes the project id resolution, the lookup and
\* the creation, which precede the update, which precedes the accept; when
\* the pattern matches no account or several, the run stops with no lookup
\* and no creation made.
C14_AssigneeBeforeLookup ==
    /\ \A a \in CallIndices("get_active_users") :
         \A j \in ForgeCallIndices \ CallIndices("get_active_users") : a < j
    /\ \A e \in EnsureCallIndices :
         \A u \in CallIndices("update_merge_request") : e < u
    /\ \A f \in CallIndices("find_opened_merge_request") :
         \A c \in CallIndices("create_merge_request") : f < c
    /\ \A u \in CallIndices("update_merge_request") :
         \A c \in CallIndices("accept_merge_request") : u < c
    /\ AssigneeError =>
         /\ pc = "aborted"
         /\ ForgeCallIndices = CallIndices("get_active_users")
         /\ Cardinality(ForgeCallIndices) = 1

\* the pattern matches several accounts while the branch has no open merge
\* request: the run stops, and nothing was looked up or created
C14_Witness ==
    /\ AssigneeError
    /\ error.template = "Found several users matching %s: %s"
    /\ OpenForBranch = {}
    /\ run = 1
    /\ Len(calls) = 1
    /\ calls[1].op = "get_active_users"

\* the merge request ensure_merge_request got from the forge, found or created
EnsuredBy(i) ==
    /\ calls[i].op \in {"find_opened_merge_request", "create_merge_request"}
    /\ calls[i].ok
    /\ calls[i].result # NoneObj

\* C15: when the lookup finds an open merge request of the branch, the run
\* makes no create call, announces the merge request as found and not as
\* created, and its update call and its accept call are made on exactly the
\* merge request that was found.
C15_FoundNoCreate ==
    \A f \in CallIndices("find_opened_merge_request") :
        (calls[f].ok /\ calls[f].result # NoneObj) =>
            /\ calls[f].result.source_branch = git.current_branch
            /\ CallIndices("create_merge_request") = {}
            /\ local.merge_request = calls[f].result
            /\ \A u \in CallIndices("update_merge_request") :
                 calls[u].params.merge_request = calls[f].result
            /\ \A a \in CallIndices("accept_merge_request") :
                 calls[a].params.merge_request = calls[f].result
            /\ \E k \in 1..Len(ui_log) :
                 /\ ui_log[k].msg = "Found existing merge request: !%s"
                 /\ ui_log[k].iid = calls[f].result.iid
            /\ \A k \in 1..Len(ui_log) : ui_log[k].msg # "Creating new merge_request"

C15_Witness ==
    /\ pc = "done"
    /\ \E f \in CallIndices("find_opened_merge_request") :
         /\ calls[f].ok
         /\ calls[f].result # NoneObj
         /\ \E u \in CallIndices("update_merge_request") :
              calls[u].ok /\ calls[u].params.merge_request = calls[f].result
         /\ \E a \in CallIndices("accept_merge_request") :
              calls[a].ok /\ calls[a].params.merge_request = calls[f].result

\* C16: a call that failed is the last call of its run, and the run is
\* aborted with its error; the same holds once the assignee resolution has
\* failed; a failed update is never followed by an accept.
C16_FirstFailureTerminal ==
    /\ \A i \in 1..Len(calls) :
         ~calls[i].ok => /\ i = Len(calls)
                         /\ pc = "aborted"
                         /\ error # NoneObj
    /\ AssigneeError =>
         /\ pc = "aborted"
         /\ calls # <<>>
         /\ calls[Len(calls)].op = "get_active_users"
    /\ \A u \in CallIndices("update_merge_request") :
         ~calls[u].ok => CallIndices("accept_merge_request") = {}
    /\ pc = "done" => \A i \in 1..Len(calls) : calls[i].ok

\* the update failed in a run that was asked to accept
C16_Witness ==
    /\ args.accept
    /\ pc = "aborted"
    /\ error = ForgeError("update_merge_request")
    /\ \E u \in CallIndices("update_merge_request") : ~calls[u].ok /\ u = Len(calls)
    /\ \E i \in 1..Len(calls) : EnsuredBy(i)

\* C17: accept_merge_request is called once at most, never without --accept,
\* and exactly once in a run with --accept that has got past the accept
\* step; the call comes after the update call of the run, which succeeded,
\* and is made on the merge request the run found or created.
C17_AcceptOnce ==
    LET accepts == CallIndices("accept_merge_request")
    IN  /\ Cardinality(accepts) <= 1
        /\ ~args.accept => accepts = {}
        /\ (args.accept /\ pc \in {"finish", "done"}) =>
              /\ Cardinality(accepts) = 1
              /\ \A a \in accepts : calls[a].ok
        /\ \A a \in accepts :
              /\ \E u \in CallIndices("update_merge_request") :
                   /\ u < a
                   /\ calls[u].ok
                   /\ calls[u].params.merge_request = calls[a].params.merge_request
              /\ \E i \in 1..(a - 1) :
                   EnsuredBy(i) /\ calls[i].result = calls[a].params.merge_request

\* a run with --accept has created a merge request, updated and accepted it
C17_Witness ==
    /\ pc = "done"
    /\ args.accept
    /\ \E a \in CallIndices("accept_merge_request") :
         /\ calls[a].ok
         /\ \E c \in CallIndices("create_merge_request") :
              calls[c].ok /\ calls[c].result = calls[a].params.merge_request

\* C18: one handler asks the forge for the project id once at most, whatever
\* id the forge answers with.
C18_ProjectIdOnce ==
    Cardinality(CallIndices("get_project_id")) <= 1

=============================================================================
